---- MODULE Spec2Model ----
(***************************************************************************)
(* treediff.py: compare two directory trees, build the tree of differing   *)
(* entries (calc), drop the directory nodes left empty (prune) and render  *)
(* it (show).                                                              *)
(*                                                                         *)
(* A directory is a function from names to entries; an entry is one of     *)
(*   [type |-> "reg",  data |-> bytes]     a regular file                  *)
(*   [type |-> "dir",  ents |-> directory] a directory                     *)
(*   [type |-> "lnk",  target |-> <<>> or <<bytes>>]  a symbolic link,     *)
(*        dangling or resolving to a regular file with those bytes         *)
(*   [type |-> "fifo"]                     a special file                  *)
(* An Optional[str] is <<>> (None) or <<s>>.                               *)
(***************************************************************************)
EXTENDS Integers, Sequences, FiniteSets, TLC

VARIABLES dirA, dirB, pc, tree, out, runs

vars == <<dirA, dirB, pc, tree, out, runs>>

\* The read size of equal_files and hash_file.  The source reads 8 KiB at a
\* time; the model reads BUFSIZE bytes at a time from files of a few bytes.
BUFSIZE == 2
PADDING == 2

\* Bounds of the inputs.
MaxLen == 3      \* longest file of the byte-comparison inputs
MaxDepth == 2    \* deepest directory nesting below the roots
MaxRuns == 2     \* how often the program is run on one pair of trees

Names == {"a", "b", "c"}
\* sorted(): the names in lexicographic order.
NameOrder == <<"a", "b", "c">>

None == <<>>
Some(s) == <<s>>

EmptyMap == [n \in {} |-> None]
Put(m, k, v) == [x \in DOMAIN m \cup {k} |-> IF x = k THEN v ELSE m[x]]
Del(m, k) == [x \in DOMAIN m \ {k} |-> m[x]]

Min(i, j) == IF i < j THEN i ELSE j

RECURSIVE Repeat(_, _)
Repeat(s, n) == IF n = 0 THEN <<>> ELSE <<s>> \o Repeat(s, n - 1)

(***************************************************************************)
(* class Diff(Enum).  A member of a Python Enum is identified by its       *)
(* value: a name bound to a value that an earlier member already has is an *)
(* alias of that member, so each member is modelled by its value.          *)
(***************************************************************************)
REMOVED == "\\033[91m"
ADDED == "\\033[92m"
CHANGED == "\\033[93m"
RENAMED == "\\033[93m"

TreeFileNode(diff, renamed_from) == [diff |-> diff, renamed_from |-> renamed_from]

TreeDirNode == [dirs |-> EmptyMap, files |-> EmptyMap]

add_file(t, name, file) == [t EXCEPT !.files = Put(t.files, name, file)]

remove_file(t, name) == [t EXCEPT !.files = Del(t.files, name)]

\* A slip: a node that holds nothing is not attached.
create_dir_if_filled(t, name, new_dir) ==
    IF Cardinality(DOMAIN new_dir.dirs) + Cardinality(DOMAIN new_dir.files) > 0
    THEN [t EXCEPT !.dirs = Put(t.dirs, name, new_dir)]
    ELSE t

\* create_dir binds a new node to the name; the caller's calc then fills it.
create_dir(t, name, new_dir) == [t EXCEPT !.dirs = Put(t.dirs, name, new_dir)]

len(t) == Cardinality(DOMAIN t.dirs) + Cardinality(DOMAIN t.files)

\* children(): the (name, node) pairs of dirs, then of files, stably sorted by
\* name.
children(t) ==
    LET at(n) == (IF n \in DOMAIN t.dirs THEN << <<n, "dir", t.dirs[n]>> >> ELSE <<>>)
                 \o (IF n \in DOMAIN t.files THEN << <<n, "file", t.files[n]>> >> ELSE <<>>)
        F[i \in 0..Len(NameOrder)] ==
            IF i = 0 THEN <<>> ELSE F[i - 1] \o at(NameOrder[i])
    IN F[Len(NameOrder)]

(***************************************************************************)
(* The file system calls.                                                  *)
(***************************************************************************)
\* lstat does not follow a symbolic link.  st_size is only read of regular
\* files.
lstat(e) == [st_mode |-> e.type, st_size |-> IF e.type = "reg" THEN Len(e.data) ELSE 0]
S_IFMT(mode) == mode
S_ISDIR(mode) == mode = "dir"
S_ISREG(mode) == mode = "reg"

\* os.path.isfile follows symbolic links.
isfile(e) == \/ e.type = "reg"
             \/ e.type = "lnk" /\ e.target # None

\* open(path, 'rb') follows symbolic links too: the bytes that are read.
open(e) == IF e.type = "reg" THEN e.data ELSE e.target[1]

\* fp.read(BUFSIZE) at offset pos.
read(bytes, pos) == SubSeq(bytes, pos + 1, Min(pos + BUFSIZE, Len(bytes)))

\* listdir yields the names of a directory in an order of the file system's,
\* and iterating a set yields its members in an order of the interpreter's:
\* either is given by a ranking of the names, drawn anew for every run, so
\* that every order of every single directory occurs.
enumerate(S, order) == SelectSeq(order, LAMBDA n : n \in S)
listdir(d, order) == enumerate(DOMAIN d, order)

\* A slip: only the first read of each file is compared.
equal_loop_first_read(f1, f2, pos1, pos2) == read(f1, pos1) = read(f2, pos2)

RECURSIVE equal_loop(_, _, _, _)
equal_loop(f1, f2, pos1, pos2) ==
    LET b1 == read(f1, pos1)
        b2 == read(f2, pos2)
    IN IF b1 # b2 THEN FALSE
       ELSE IF b1 = <<>> THEN TRUE
       ELSE equal_loop(f1, f2, pos1 + Len(b1), pos2 + Len(b2))

equal_files(e1, e2) == equal_loop(open(e1), open(e2), 0, 0)

\* sha1 as a collision-free digest: the digest of a message stands for it.
sha1_digest(msg) == <<"sha1", msg>>

RECURSIVE hash_loop(_, _, _)
hash_loop(f, pos, h) ==
    LET b == read(f, pos)
    IN IF b = <<>> THEN sha1_digest(h) ELSE hash_loop(f, pos + Len(b), h \o b)

hash_file(e) == hash_loop(open(e), 0, <<>>)

(***************************************************************************)
(* calc.  The loop state is the tree node, the set B of unconsumed new     *)
(* names and the dict hashes.                                              *)
(***************************************************************************)
RECURSIVE calc(_, _, _, _, _)

\* A slip: hashes = {hashA: ent}, the candidates recorded before are lost.
record_candidate_alone(hashes, hashA, ent) == Put(EmptyMap, hashA, ent)

\* hashes[hashA] = ent
record_candidate(hashes, hashA, ent) == Put(hashes, hashA, ent)

\* The body of "for ent in listdir(dirA)".
calc_old_entry(st, ent, dA, dB, lsOrder, setOrder) ==
    IF ent \notin st.B
    THEN [tree |-> add_file(st.tree, ent, TreeFileNode(REMOVED, None)),
          B |-> st.B,
          hashes |-> IF isfile(dA[ent])
                     THEN record_candidate(st.hashes, hash_file(dA[ent]), ent)
                     ELSE st.hashes]
    ELSE LET a == lstat(dA[ent])
             b == lstat(dB[ent])
             B2 == st.B \ {ent}
             changed == [tree |-> add_file(st.tree, ent, TreeFileNode(CHANGED, None)),
                         B |-> B2, hashes |-> st.hashes]
             same == [tree |-> st.tree, B |-> B2, hashes |-> st.hashes]
         IN IF S_IFMT(a.st_mode) # S_IFMT(b.st_mode) THEN changed
            ELSE IF S_ISDIR(a.st_mode)
                 THEN [tree |-> create_dir(st.tree, ent,
                                           calc(TreeDirNode, dA[ent].ents, dB[ent].ents,
                                                lsOrder, setOrder)),
                       B |-> B2, hashes |-> st.hashes]
            ELSE IF ~S_ISREG(a.st_mode) THEN changed
            ELSE IF a.st_size # b.st_size THEN changed
            ELSE IF ~equal_files(dA[ent], dB[ent]) THEN changed
            ELSE same

\* A slip: the Removed entry of the original is left in the tree.
calc_new_entry_keeps_removed(st, ent, dB) ==
    IF isfile(dB[ent]) /\ hash_file(dB[ent]) \in DOMAIN st.hashes
    THEN LET h == hash_file(dB[ent])
             renamed_from == st.hashes[h]
         IN [tree |-> add_file(st.tree, ent, TreeFileNode(RENAMED, Some(renamed_from))),
             B |-> st.B,
             hashes |-> Del(st.hashes, h)]
    ELSE [tree |-> add_file(st.tree, ent, TreeFileNode(ADDED, None)),
          B |-> st.B, hashes |-> st.hashes]

\* The body of "for ent in B".
calc_new_entry(st, ent, dB) ==
    IF isfile(dB[ent]) /\ hash_file(dB[ent]) \in DOMAIN st.hashes
    THEN LET h == hash_file(dB[ent])
             renamed_from == st.hashes[h]
         IN [tree |-> add_file(remove_file(st.tree, renamed_from), ent,
                               TreeFileNode(RENAMED, Some(renamed_from))),
             B |-> st.B,
             hashes |-> Del(st.hashes, h)]
    ELSE [tree |-> add_file(st.tree, ent, TreeFileNode(ADDED, None)),
          B |-> st.B, hashes |-> st.hashes]

calc(t, dA, dB, lsOrder, setOrder) ==
    LET entsA == listdir(dA, lsOrder)
        LoopA[i \in 0..Len(entsA)] ==
            IF i = 0 THEN [tree |-> t, B |-> DOMAIN dB, hashes |-> EmptyMap]
            ELSE calc_old_entry(LoopA[i - 1], entsA[i], dA, dB, lsOrder, setOrder)
        afterA == LoopA[Len(entsA)]
        entsB == enumerate(afterA.B, setOrder)
        LoopB[i \in 0..Len(entsB)] ==
            IF i = 0 THEN afterA
            ELSE calc_new_entry(LoopB[i - 1], entsB[i], dB)
    IN LoopB[Len(entsB)].tree

(***************************************************************************)
(* prune: the node with its dirs pruned in place and then filtered.        *)
(***************************************************************************)
RECURSIVE prune(_)

\* A slip: "if prune(node)", which is always true, so every node is kept.
prune_keeps_all(t) ==
    [t EXCEPT !.dirs = [n \in DOMAIN t.dirs |-> prune(t.dirs[n])]]

\* A slip: "if node and prune(node)", the node is measured before its own
\* dirs are pruned.
prune_measures_first(t) ==
    LET kept == {n \in DOMAIN t.dirs : len(t.dirs[n]) > 0}
    IN [t EXCEPT !.dirs = [n \in kept |-> prune(t.dirs[n])]]

prune(t) ==
    LET pruned == [n \in DOMAIN t.dirs |-> prune(t.dirs[n])]
        kept == {n \in DOMAIN t.dirs : len(pruned[n]) > 0}
    IN [t EXCEPT !.dirs = [n \in kept |-> pruned[n]]]

(***************************************************************************)
(* show: the lines printed, each the pieces of its f-string.  left is the  *)
(* sequence of the characters before the name, with "L", "T", "-" and "|"  *)
(* for the corner, the tee, the horizontal and the vertical bar; the       *)
(* closing reset sequence is the same on every line and left out.          *)
(***************************************************************************)
str(opt) == IF opt = None THEN "None" ELSE opt[1]

file_line(left_align, name, node) ==
    IF node.diff = RENAMED
    THEN [left |-> left_align, style |-> node.diff,
          text |-> "{" \o name \o " => " \o str(node.renamed_from) \o "}"]
    ELSE [left |-> left_align, style |-> node.diff, text |-> name]

dir_line(left_align, name) ==
    [left |-> left_align, style |-> "\\033[1m", text |-> "dir " \o name]

RECURSIVE show(_, _)
show(t, prefix) ==
    LET ch == children(t)
        amount == Len(ch)
        line(i) ==
            LET name == ch[i][1]
                node == ch[i][3]
                last == i = amount
                left_align == prefix \o <<IF last THEN "L" ELSE "T">> \o Repeat("-", PADDING)
                subprefix == <<IF last THEN " " ELSE "|">> \o Repeat(" ", PADDING)
            IN IF ch[i][2] = "file"
               THEN <<file_line(left_align, name, node)>>
               ELSE <<dir_line(left_align, name)>> \o show(node, prefix \o subprefix)
        F[i \in 0..amount] == IF i = 0 THEN <<>> ELSE F[i - 1] \o line(i)
    IN F[amount]

header(mark, path) == [left |-> <<>>, style |-> "", text |-> mark \o " " \o path]

(***************************************************************************)
(* The input trees.                                                        *)
(***************************************************************************)
Reg(bytes) == [type |-> "reg", data |-> bytes]
Dir(ents) == [type |-> "dir", ents |-> ents]
Lnk(target) == [type |-> "lnk", target |-> target]
Fifo == [type |-> "fifo"]

X == <<1, 2, 1>>
Y == <<1, 2, 2>>
Z == <<1, 2>>

DirsOver(S, E) == UNION {[T -> E] : T \in SUBSET S}

\* One directory level of files, links and special files.
FlatEntries == {Reg(X), Reg(Y), Lnk(Some(X)), Fifo}
FlatDirs == DirsOver(Names, FlatEntries)

\* Nested directories: "a" is a regular file, "b" a directory, and at the
\* root also a regular file or a dangling link.
Merge(f, g) == [n \in DOMAIN f \cup DOMAIN g |-> IF n \in DOMAIN f THEN f[n] ELSE g[n]]
DeepFiles == DirsOver({"a"}, {Reg(X), Reg(Z)})
RECURSIVE DeepDirs(_)
DeepDirs(depth) ==
    LET subs == IF depth = 0 THEN {} ELSE {Dir(d) : d \in DeepDirs(depth - 1)}
    IN {Merge(f, s) : f \in DeepFiles, s \in DirsOver({"b"}, subs)}
DeepRoots ==
    LET subs == {Reg(X), Lnk(None)} \cup {Dir(d) : d \in DeepDirs(MaxDepth - 1)}
    IN {Merge(f, s) : f \in DeepFiles, s \in DirsOver({"b"}, subs)}

\* One regular file of any bytes.
RECURSIVE Bytes(_)
Bytes(n) == IF n = 0 THEN {<<>>}
            ELSE Bytes(n - 1) \cup {Append(s, b) : s \in Bytes(n - 1), b \in {1, 2}}
CmpDirs == {[n \in {"a"} |-> Reg(s)] : s \in Bytes(MaxLen)}

Orders == {o \in [1..Cardinality(Names) -> Names] : \A n \in Names : \E i \in DOMAIN o : o[i] = n}

Init ==
    /\ \/ dirA \in FlatDirs /\ dirB \in FlatDirs
       \/ dirA \in DeepRoots /\ dirB \in DeepRoots
       \/ dirA \in CmpDirs /\ dirB \in CmpDirs
    /\ pc = "start"
    /\ tree = TreeDirNode
    /\ out = <<>>
    /\ runs = <<>>

\* calc(tree, dirA, dirB), the directories enumerated in some order.
Calc ==
    /\ pc = "start"
    /\ \E lsOrder \in Orders, setOrder \in Orders :
          /\ tree' = calc(tree, dirA, dirB, lsOrder, setOrder)
          /\ runs' = Append(runs, tree')
    /\ pc' = "calc"
    /\ UNCHANGED <<dirA, dirB, out>>

\* prune(tree)
Prune ==
    /\ pc = "calc"
    /\ tree' = prune(tree)
    /\ pc' = "pruned"
    /\ UNCHANGED <<dirA, dirB, out, runs>>

\* The two header lines and show(tree).
Show ==
    /\ pc = "pruned"
    /\ out' = <<header("---", "old"), header("+++", "new")>> \o show(tree, <<>>)
    /\ pc' = "shown"
    /\ UNCHANGED <<dirA, dirB, tree, runs>>

\* The program is run again on the same two trees.
Rerun ==
    /\ pc = "shown"
    /\ Len(runs) < MaxRuns
    /\ pc' = "start"
    /\ tree' = TreeDirNode
    /\ out' = <<>>
    /\ UNCHANGED <<dirA, dirB, runs>>

Next == Calc \/ Prune \/ Show \/ Rerun

Spec == Init /\ [][Next]_vars

(***************************************************************************)
(* What the properties speak of.                                           *)
(***************************************************************************)
Built == pc # "start"
Pruned == pc \in {"pruned", "shown"}

OldOnly(dA, dB) == DOMAIN dA \ DOMAIN dB
NewOnly(dA, dB) == DOMAIN dB \ DOMAIN dA
CommonDirs(dA, dB) == {n \in DOMAIN dA \cap DOMAIN dB :
                          dA[n].type = "dir" /\ dB[n].type = "dir"}
NodeOr(t, n) == IF n \in DOMAIN t.dirs THEN t.dirs[n] ELSE TreeDirNode

\* Every pair of directories calc compares, with the node it built for the
\* pair (an empty node where the tree holds none).
RECURSIVE LevelsIn(_, _, _)
LevelsIn(t, dA, dB) ==
    {[node |-> t, old |-> dA, new |-> dB]}
    \cup UNION {LevelsIn(NodeOr(t, n), dA[n].ents, dB[n].ents) : n \in CommonDirs(dA, dB)}

Levels == LevelsIn(tree, dirA, dirB)

\* The nodes below a node, and the file entries in and below it.
RECURSIVE NodesBelow(_)
NodesBelow(t) == UNION {{t.dirs[n]} \cup NodesBelow(t.dirs[n]) : n \in DOMAIN t.dirs}

RECURSIVE FileCount(_)
FileCount(t) ==
    LET names == DOMAIN t.dirs
        Sum[S \in SUBSET names] ==
            IF S = {} THEN 0
            ELSE LET n == CHOOSE x \in S : TRUE IN FileCount(t.dirs[n]) + Sum[S \ {n}]
    IN Cardinality(DOMAIN t.files) + Sum[names]

\* The files of a tree (what isfile accepts), at every depth, as
\* <<name, bytes>>.
RECURSIVE FilesOf(_)
FilesOf(d) ==
    {<<n, open(d[n])>> : n \in {x \in DOMAIN d : isfile(d[x])}}
    \cup UNION {FilesOf(d[n].ents) : n \in {x \in DOMAIN d : d[x].type = "dir"}}

\* The names of a directory that isfile accepts and that read as the bytes.
FilesWith(d, S, bytes) == {n \in S : isfile(d[n]) /\ open(d[n]) = bytes}

\* The entries of a node that name F as their original.
RenamedFrom(t, F) == {n \in DOMAIN t.files : t.files[n].renamed_from = Some(F)}

IsRemoved(t, F) == F \in DOMAIN t.files /\ t.files[F] = TreeFileNode(REMOVED, None)

(***************************************************************************)
(* C1.  As claimed: a regular file F of an old directory whose name the    *)
(* new directory lacks is exactly one Removed entry, unless a file of the  *)
(* same bytes appears under another name in the new tree; then F is the    *)
(* original of exactly one Renamed entry and has no Removed entry.         *)
(***************************************************************************)
C1_AsClaimed ==
    Pruned =>
        \A lv \in Levels :
            \A F \in {n \in OldOnly(lv.old, lv.new) : lv.old[n].type = "reg"} :
                IF \E f \in FilesOf(dirB) : f[1] # F /\ f[2] = lv.old[F].data
                THEN /\ Cardinality(RenamedFrom(lv.node, F)) = 1
                     /\ F \notin DOMAIN lv.node.files
                ELSE /\ IsRemoved(lv.node, F)
                     /\ RenamedFrom(lv.node, F) = {}

(***************************************************************************)
(* C1, amended.  F is exactly one Removed entry, unless a file of the same *)
(* bytes appears in the same new directory under a name the old directory  *)
(* lacks; then exactly one of the removed files of those bytes in that     *)
(* directory (F, when it is the only one) is the original of exactly one   *)
(* Renamed entry, whose name is such a new file, and has no Removed entry, *)
(* and every other one is exactly one Removed entry.  A file is what       *)
(* isfile accepts.                                                         *)
(***************************************************************************)
C1_RemovedOrRenamed ==
    Pruned =>
        \A lv \in Levels :
            \A F \in {n \in OldOnly(lv.old, lv.new) : lv.old[n].type = "reg"} :
                LET t == lv.node
                    bytes == lv.old[F].data
                    twins == FilesWith(lv.new, NewOnly(lv.old, lv.new), bytes)
                    group == FilesWith(lv.old, OldOnly(lv.old, lv.new), bytes)
                    sources == {g \in group : RenamedFrom(t, g) # {}}
                IN /\ IsRemoved(t, F) \/ F \notin DOMAIN t.files
                   /\ IsRemoved(t, F) <=> RenamedFrom(t, F) = {}
                   /\ Cardinality(RenamedFrom(t, F)) <= 1
                   /\ RenamedFrom(t, F) \subseteq twins
                   /\ \A n \in RenamedFrom(t, F) : t.files[n].diff = RENAMED
                   /\ Cardinality(sources) = IF twins = {} THEN 0 ELSE 1

\* A removed file with a same-content rival has become the original of a
\* Renamed entry, and the rival stays Removed.
C1_Witness ==
    /\ Pruned
    /\ \E lv \in Levels :
          \E F \in {n \in OldOnly(lv.old, lv.new) : lv.old[n].type = "reg"} :
              /\ RenamedFrom(lv.node, F) # {}
              /\ \E g \in FilesWith(lv.old, OldOnly(lv.old, lv.new), lv.old[F].data) :
                    g # F /\ IsRemoved(lv.node, g)

(***************************************************************************)
(* C3.  As claimed: two identical trees leave, after calc and prune, a     *)
(* root with no file and no directory entry, and the output is the two     *)
(* header lines.                                                           *)
(***************************************************************************)
Headers == <<header("---", "old"), header("+++", "new")>>

C3_AsClaimed ==
    (Pruned /\ dirA = dirB) =>
        /\ tree = TreeDirNode
        /\ pc = "shown" => out = Headers

\* A tree of directories and regular files only, at every depth.
RECURSIVE OnlyRegAndDir(_)
OnlyRegAndDir(d) ==
    \A n \in DOMAIN d :
        \/ d[n].type = "reg"
        \/ d[n].type = "dir" /\ OnlyRegAndDir(d[n].ents)

(***************************************************************************)
(* C3, amended.  Two identical trees that hold directories and regular     *)
(* files only leave, after calc and prune, a root with no file and no      *)
(* directory entry, and the output is the two header lines.                *)
(***************************************************************************)
C3_IdenticalTrees ==
    (Pruned /\ dirA = dirB /\ OnlyRegAndDir(dirA)) =>
        /\ tree = TreeDirNode
        /\ pc = "shown" => out = Headers

\* Two identical trees with a file two directories down have been shown.
C3_Witness ==
    /\ pc = "shown"
    /\ dirA = dirB
    /\ OnlyRegAndDir(dirA)
    /\ \E n \in CommonDirs(dirA, dirB) :
          \E m \in CommonDirs(dirA[n].ents, dirB[n].ents) :
              \E f \in DOMAIN dirA[n].ents[m].ents : dirA[n].ents[m].ents[f].type = "reg"

(***************************************************************************)
(* C4.  A name that is a regular file on both sides has an entry exactly   *)
(* if the bytes differ, and the entry is Changed; and equal_files is true  *)
(* of two files only if every read of the one equals the read of the other *)
(* at the same offset, up to the read that finds both at their end.        *)
(***************************************************************************)
C4_ChangedIffBytesDiffer ==
    Built =>
        \A lv \in Levels :
            LET regA == {n \in DOMAIN lv.old : lv.old[n].type = "reg"}
                regB == {n \in DOMAIN lv.new : lv.new[n].type = "reg"}
            IN /\ \A n \in regA \cap regB :
                     /\ n \in DOMAIN lv.node.files <=> lv.old[n].data # lv.new[n].data
                     /\ n \in DOMAIN lv.node.files =>
                            lv.node.files[n] = TreeFileNode(CHANGED, None)
               /\ \A n \in regA, m \in regB :
                     LET f1 == lv.old[n].data
                         f2 == lv.new[m].data
                     IN equal_files(lv.old[n], lv.new[m]) <=>
                            /\ Len(f1) = Len(f2)
                            /\ \A k \in 0..Len(f1) :
                                   read(f1, k * BUFSIZE) = read(f2, k * BUFSIZE)

\* Two files of one size that differ after their first read are Changed.
C4_Witness ==
    /\ Built
    /\ \E n \in DOMAIN dirA \cap DOMAIN dirB :
          /\ dirA[n].type = "reg" /\ dirB[n].type = "reg"
          /\ Len(dirA[n].data) = Len(dirB[n].data)
          /\ Len(dirA[n].data) > BUFSIZE
          /\ read(dirA[n].data, 0) = read(dirB[n].data, 0)
          /\ dirA[n].data # dirB[n].data
          /\ n \in DOMAIN tree.files
          /\ tree.files[n] = TreeFileNode(CHANGED, None)

(***************************************************************************)
(* C6.  After prune every directory node below the root has a file entry   *)
(* in it or below it.                                                      *)
(***************************************************************************)
C6_NoEmptySubtree ==
    Pruned => \A t \in NodesBelow(tree) : FileCount(t) > 0

\* calc built a node that holds nothing but an empty node, and prune has
\* taken it off the root.
C6_Witness ==
    /\ Pruned
    /\ \E n \in DOMAIN runs[Len(runs)].dirs :
          LET t == runs[Len(runs)].dirs[n]
          IN /\ DOMAIN t.files = {}
             /\ DOMAIN t.dirs # {}
             /\ FileCount(t) = 0
             /\ n \notin DOMAIN tree.dirs

(***************************************************************************)
(* C10.  As claimed: before prune, a name that is a directory on both      *)
(* sides has a child node only if the comparison of the two directories    *)
(* recorded an entry.                                                      *)
(***************************************************************************)
C10_AsClaimed ==
    pc = "calc" =>
        \A lv \in Levels :
            \A n \in CommonDirs(lv.old, lv.new) :
                n \in DOMAIN lv.node.dirs => len(lv.node.dirs[n]) > 0

(***************************************************************************)
(* C10, amended.  Before prune, the names that have a child node are       *)
(* exactly the names that are a directory on both sides, whether or not    *)
(* the comparison of the two directories recorded an entry.                *)
(***************************************************************************)
C10_AlwaysAttached ==
    pc = "calc" =>
        \A lv \in Levels : DOMAIN lv.node.dirs = CommonDirs(lv.old, lv.new)

\* Before prune, a node holds a child node that holds nothing.
C10_Witness ==
    /\ pc = "calc"
    /\ \E lv \in Levels :
          \E n \in DOMAIN lv.node.dirs : len(lv.node.dirs[n]) = 0

(***************************************************************************)
(* C2.  As claimed: show prints a file entry as {name => original} exactly *)
(* if calc classified it Renamed (it took the rename branch, which alone   *)
(* gives an original name), and as its plain name otherwise.               *)
(***************************************************************************)
ClaimedText(name, node) ==
    IF node.renamed_from # None
    THEN "{" \o name \o " => " \o node.renamed_from[1] \o "}"
    ELSE name

\* The file lines a tree should print, as <<depth, style, text>>.
RECURSIVE ClaimedLines(_, _)
ClaimedLines(t, depth) ==
    {<<depth, t.files[n].diff, ClaimedText(n, t.files[n])>> : n \in DOMAIN t.files}
    \cup UNION {ClaimedLines(t.dirs[n], depth + 1) : n \in DOMAIN t.dirs}

PrintedFileLines ==
    {<<(Len(out[i].left) \div (1 + PADDING)) - 1, out[i].style, out[i].text>> :
        i \in {j \in DOMAIN out : out[j].style \in {REMOVED, ADDED, CHANGED, RENAMED}}}

C2_AsClaimed ==
    pc = "shown" => PrintedFileLines = ClaimedLines(tree, 0)

(***************************************************************************)
(* C5.  As claimed: at one level, k >= 1 removed and m >= 1 added regular  *)
(* files of the same bytes give exactly one Renamed entry for those bytes, *)
(* k-1 Removed and m-1 Added entries, no old name is the original of two   *)
(* entries, and the original is one of the k removed files.                *)
(***************************************************************************)
C5_AsClaimed ==
    Built =>
        \A lv \in Levels :
            \A bytes \in {lv.old[n].data : n \in {x \in DOMAIN lv.old : lv.old[x].type = "reg"}} :
                LET t == lv.node
                    rem == {n \in OldOnly(lv.old, lv.new) :
                               lv.old[n].type = "reg" /\ lv.old[n].data = bytes}
                    add == {n \in NewOnly(lv.old, lv.new) :
                               lv.new[n].type = "reg" /\ lv.new[n].data = bytes}
                    renamed == {n \in DOMAIN t.files :
                                   /\ t.files[n].renamed_from # None
                                   /\ isfile(lv.new[n]) /\ open(lv.new[n]) = bytes}
                IN (rem # {} /\ add # {}) =>
                       /\ Cardinality(renamed) = 1
                       /\ Cardinality({n \in rem : IsRemoved(t, n)}) = Cardinality(rem) - 1
                       /\ Cardinality({n \in add : t.files[n] = TreeFileNode(ADDED, None)})
                              = Cardinality(add) - 1
                       /\ \A n \in renamed : t.files[n].renamed_from[1] \in rem
                       /\ \A F \in DOMAIN lv.old : Cardinality(RenamedFrom(t, F)) <= 1

(***************************************************************************)
(* C7.  Two runs on the same trees under two enumeration orders.           *)
(***************************************************************************)
RECURSIVE LevelsIn2(_, _, _, _)
LevelsIn2(t1, t2, dA, dB) ==
    {[one |-> t1, two |-> t2, old |-> dA, new |-> dB]}
    \cup UNION {LevelsIn2(NodeOr(t1, n), NodeOr(t2, n), dA[n].ents, dB[n].ents) :
                   n \in CommonDirs(dA, dB)}

\* One of several removed (added) files of the same bytes at its level.
DupOld(lv, n) ==
    /\ n \in OldOnly(lv.old, lv.new)
    /\ isfile(lv.old[n])
    /\ FilesWith(lv.old, OldOnly(lv.old, lv.new), open(lv.old[n])) # {n}
DupNew(lv, n) ==
    /\ n \in NewOnly(lv.old, lv.new)
    /\ isfile(lv.new[n])
    /\ FilesWith(lv.new, NewOnly(lv.old, lv.new), open(lv.new[n])) # {n}

Kind(t, n) == IF n \in DOMAIN t.files THEN <<t.files[n].diff>> ELSE <<>>

\* The two runs classify the name alike; the originals of a Renamed entry
\* may differ where each is one of several same-content removed files.
SameClass(lv, n) ==
    /\ Kind(lv.one, n) = Kind(lv.two, n)
    /\ n \in DOMAIN lv.one.files \cap DOMAIN lv.two.files =>
          LET r1 == lv.one.files[n].renamed_from
              r2 == lv.two.files[n].renamed_from
          IN \/ r1 = r2
             \/ r1 # None /\ r2 # None /\ DupOld(lv, r1[1]) /\ DupOld(lv, r2[1])

(***************************************************************************)
(* C7.  As claimed: the two trees classify every entry alike, except for   *)
(* which of several same-content removed files is the rename source.       *)
(***************************************************************************)
C7_AsClaimed ==
    \A i \in DOMAIN runs, j \in DOMAIN runs :
        \A lv \in LevelsIn2(runs[i], runs[j], dirA, dirB) :
            /\ DOMAIN lv.one.dirs = DOMAIN lv.two.dirs
            /\ \A n \in Names : ~DupOld(lv, n) => SameClass(lv, n)

(***************************************************************************)
(* C7, amended.  The two trees classify every entry alike, except for      *)
(* which of several same-content removed files is the rename source and    *)
(* which of several same-content added files is the Renamed one.           *)
(***************************************************************************)
C7_OrderIndependent ==
    \A i \in DOMAIN runs, j \in DOMAIN runs :
        \A lv \in LevelsIn2(runs[i], runs[j], dirA, dirB) :
            /\ DOMAIN lv.one.dirs = DOMAIN lv.two.dirs
            /\ \A n \in Names : (~DupOld(lv, n) /\ ~DupNew(lv, n)) => SameClass(lv, n)

\* Two runs have classified one of two same-content added files differently.
C7_Witness ==
    /\ Len(runs) = 2
    /\ \E n \in NewOnly(dirA, dirB) :
          /\ DupNew([old |-> dirA, new |-> dirB], n)
          /\ Kind(runs[1], n) # Kind(runs[2], n)

(***************************************************************************)
(* C8.  As claimed: an entry whose kind is Renamed carries an original     *)
(* name, a name removed from the same old directory; an entry whose kind   *)
(* is Removed, Added or Changed carries none; the four kinds are four      *)
(* values.                                                                 *)
(***************************************************************************)
C8_AsClaimed ==
    Built =>
        \A lv \in Levels :
            \A n \in DOMAIN lv.node.files :
                LET e == lv.node.files[n]
                IN /\ e.diff = RENAMED =>
                          /\ e.renamed_from # None
                          /\ e.renamed_from[1] \in OldOnly(lv.old, lv.new)
                   /\ e.diff \in {REMOVED, ADDED, CHANGED} => e.renamed_from = None
                   /\ Cardinality({REMOVED, ADDED, CHANGED, RENAMED}) = 4

(***************************************************************************)
(* C9.  As claimed: a name of the new directory alone whose entry is not a *)
(* regular file is Added, and the original of a Renamed entry is a regular *)
(* file.                                                                   *)
(***************************************************************************)
C9_AsClaimed ==
    Built =>
        \A lv \in Levels :
            /\ \A n \in NewOnly(lv.old, lv.new) :
                  lv.new[n].type # "reg" =>
                      /\ n \in DOMAIN lv.node.files
                      /\ lv.node.files[n] = TreeFileNode(ADDED, None)
            /\ \A n \in DOMAIN lv.node.files :
                  \A F \in OldOnly(lv.old, lv.new) :
                      lv.node.files[n].renamed_from = Some(F) => lv.old[F].type = "reg"

====
